---------------------------- MODULE Spec2Model ----------------------------
(***************************************************************************)
(* A model of the session layer of the requests library:                   *)
(*   src/requests/sessions.py    merge_kwargs, Session                     *)
(*   src/requests/api.py         request and the verb functions            *)
(*   src/requests/exceptions.py  RequestException                          *)
(*                                                                         *)
(* Python values are encoded as follows.                                   *)
(*   - a dict is a function from a finite set of keys to cells; a cell is  *)
(*     a string, and the cell NoneV stands for Python's None;              *)
(*   - dicts are mutable objects: they live in a heap (a sequence of       *)
(*     dicts) and are passed by reference, so that aliasing and in-place   *)
(*     mutation (dict.update, del d[k]) can be observed;                   *)
(*   - an argument value is a record [kind, ref, s]: kind "none" is None,  *)
(*     "str" a string, "scalar" a number (no .items), "dict" a reference   *)
(*     into the heap.                                                      *)
(***************************************************************************)
EXTENDS Integers, Sequences, FiniteSets, TLC

VARIABLES
    \* ---- merge_kwargs called on its own (specification SpecMerge)
    fkvFresh,     \* whether utils.from_key_val_list returns a new object
    mHeap,        \* the heap before the call
    mLocal,       \* local_kwarg
    mDefault,     \* default_kwarg
    mHeapAfter,   \* the heap after the call
    mRet,         \* the value returned
    mDone,        \* whether merge_kwargs has been called on these inputs
    \* ---- one Session and its caller (specification Spec)
    sHeaders,     \* Session.headers: a dict
    sTimeout,     \* Session.timeout: None or a number
    sHooks,       \* Session.hooks: a dict from hook names to callables
    sJar,         \* Session.cookies: the jar object it names
    jars,         \* the cookie jar objects: the session's own, the caller's
    hasPool,      \* whether the session has its poolmanager attribute
    managed,      \* the store as the last explicit cookie call left it
    tJar,         \* the cookies of a second Session: the jar object it names
    tStore,       \* the store of the second session as it was constructed
    exc,          \* the RequestException the caller has constructed, if any
    op,           \* the operation in progress or just returned ("idle": none)
    call,         \* the arguments of that call
    res           \* what that call did and returned

mergeVars == <<fkvFresh, mHeap, mLocal, mDefault, mHeapAfter, mRet, mDone>>

otherVars == <<tJar, tStore>>

sessionVars ==
    <<sHeaders, sTimeout, sHooks, sJar, jars, hasPool, managed, otherVars,
      exc, op, call, res>>

vars == <<mergeVars, sessionVars>>

-----------------------------------------------------------------------------
(* Bounds and value domains *)

\* the number of distinct keys a settings bag may hold
MaxKeys == 2

KeyPool == <<"X-A", "X-B", "X-C", "X-D">>

Keys == {KeyPool[i] : i \in 1..MaxKeys}

\* Python's None as the value of a key
NoneV == "<None>"

Vals == {"1", "2"}

Cells == Vals \cup {NoneV}

Dicts == UNION {[K -> Cells] : K \in SUBSET Keys}

EmptyDict == [k \in {} |-> NoneV]

Nil == [kind |-> "none", ref |-> 0, s |-> ""]

Str(x) == [kind |-> "str", ref |-> 0, s |-> x]

Scalar(x) == [kind |-> "scalar", ref |-> 0, s |-> x]

Ref(n) == [kind |-> "dict", ref |-> n, s |-> ""]

\* the value an argument denotes in heap h (contents instead of identity)
ValOf(h, v) ==
    [kind |-> v.kind, s |-> v.s,
     items |-> IF v.kind = "dict" THEN h[v.ref] ELSE EmptyDict]

-----------------------------------------------------------------------------
(* merge_kwargs, sessions.py lines 24-55 *)

\* hasattr(x, 'items')
HasItems(v) == v.kind = "dict"

\* utils.from_key_val_list: an ordered mapping holding the items of its
\* argument; None stays None.  Whether a mapping argument is returned itself
\* or as a new object is not visible from sessions.py: fkvFresh covers both.
from_key_val_list(h, v) ==
    IF v.kind = "dict" /\ fkvFresh
    THEN [heap |-> Append(h, h[v.ref]), ret |-> Ref(Len(h) + 1)]
    ELSE [heap |-> h, ret |-> v]

\* a mutant: kwargs = default_kwarg (no copy)
DictCopyAlias(h, v) == [heap |-> h, ret |-> v]

\* kwargs = default_kwarg.copy()
DictCopy(h, v) == [heap |-> Append(h, h[v.ref]), ret |-> Ref(Len(h) + 1)]

\* a mutant: keys already present keep their value (setdefault, not update)
DictUpdateKeep(h, target, src) ==
    [h EXCEPT ![target.ref] =
        [k \in DOMAIN @ \cup DOMAIN h[src.ref] |->
            IF k \in DOMAIN @ THEN @[k] ELSE h[src.ref][k]]]

\* kwargs.update(local_kwarg)
DictUpdate(h, target, src) ==
    [h EXCEPT ![target.ref] =
        [k \in DOMAIN @ \cup DOMAIN h[src.ref] |->
            IF k \in DOMAIN h[src.ref] THEN h[src.ref][k] ELSE @[k]]]

\* a mutant: the loop that removes the keys set to None is left out
RemoveNoneSkip(h, target, src) == h

\* a mutant: the test "if v is None" is left out of the loop
RemoveNoneAll(h, target, src) ==
    [h EXCEPT ![target.ref] =
        [k \in DOMAIN @ \ DOMAIN h[src.ref] |-> @[k]]]

\* for (k, v) in local_kwarg.items(): if v is None: del kwargs[k]
RemoveNone(h, target, src) ==
    [h EXCEPT ![target.ref] =
        [k \in DOMAIN @ \ {j \in DOMAIN h[src.ref] : h[src.ref][j] = NoneV}
            |-> @[k]]]

\* lines 43-55: both arguments are mappings
MergeDicts(h, local, default) ==
    LET d  == from_key_val_list(h, default)
        l  == from_key_val_list(d.heap, local)
        c  == DictCopy(l.heap, d.ret)
        h2 == DictUpdate(c.heap, c.ret, l.ret)
        h3 == RemoveNone(h2, c.ret, l.ret)
    IN  [heap |-> h3, ret |-> c.ret]

\* a mutant: an absent default is taken for an empty one and merged
merge_kwargs_or_empty(h, local, default) ==
    IF local.kind = "str" THEN [heap |-> h, ret |-> local]
    ELSE IF local.kind = "none" THEN [heap |-> h, ret |-> default]
    ELSE IF default.kind = "none"
         THEN IF HasItems(local)
              THEN MergeDicts(Append(h, EmptyDict), local, Ref(Len(h) + 1))
              ELSE [heap |-> h, ret |-> local]
    ELSE IF ~HasItems(default) THEN [heap |-> h, ret |-> local]
    ELSE MergeDicts(h, local, default)

merge_kwargs(h, local, default) ==
    IF default.kind = "none" THEN [heap |-> h, ret |-> local]
    ELSE IF local.kind = "str" THEN [heap |-> h, ret |-> local]
    ELSE IF local.kind = "none" THEN [heap |-> h, ret |-> default]
    ELSE IF ~HasItems(default) THEN [heap |-> h, ret |-> local]
    ELSE MergeDicts(h, local, default)

\* merge_kwargs on two mappings given by their contents: the merged contents
MergedItems(localItems, defaultItems) ==
    LET r == merge_kwargs(<<localItems, defaultItems>>, Ref(1), Ref(2))
    IN  r.heap[r.ret.ref]

-----------------------------------------------------------------------------
(* Cookie jars.  A jar is a function from <<name, domain>> to the cookie's  *)
(* value: CookieJar keeps one cookie per name, domain and path, and the     *)
(* path is folded into the domain here.                                     *)

\* the number of distinct cookie names
MaxNames == 2

NamePool == <<"a", "b", "c", "d">>

CookieNames == {NamePool[i] : i \in 1..MaxNames}

\* the domain of a cookie made from a name-to-value mapping
DefaultDomain == ""

OtherDomain == "example.org"

EmptyJar == [k \in {} |-> NoneV]

NamesOf(jar) == {k[1] : k \in DOMAIN jar}

\* cookies.cookiejar_from_dict: one cookie per entry of the mapping (None: an
\* empty jar)
cookiejar_from_dict(d) ==
    [k \in {<<n, DefaultDomain>> : n \in DOMAIN d} |-> d[k[1]]]

\* CookieJar.set_cookie: the cookie replaces the one of its name and domain
set_cookie(jar, key, value) ==
    [k \in DOMAIN jar \cup {key} |-> IF k = key THEN value ELSE jar[k]]

\* cookies.remove_cookie_by_name: every cookie of that name leaves the jar
remove_cookie_by_name(jar, name) ==
    [k \in {j \in DOMAIN jar : j[1] # name} |-> jar[k]]

\* for cookie in self.cookies: args['cookies'].set_cookie(cookie)
SetAllCookies(target, source) ==
    [k \in DOMAIN target \cup DOMAIN source |->
        IF k \in DOMAIN source THEN source[k] ELSE target[k]]

\* the arguments a call gives for headers and for cookies
NoArg == [kind |-> "none", items |-> EmptyDict, jar |-> ""]

DictArg(d) == [kind |-> "dict", items |-> d, jar |-> ""]

JarArg(j) == [kind |-> "jar", items |-> EmptyDict, jar |-> j]

\* a mutant: no name is taken for dead
DeadCookiesNone(cookies) == {}

\* dead_cookies = [name for name in cookies if cookies[name] is None]
DeadCookies(cookies) ==
    {n \in DOMAIN cookies.items : cookies.items[n] = NoneV}

\* for name in dead_cookies: remove_cookie_by_name(args['cookies'], name)
RECURSIVE RemoveDead(_, _)
RemoveDead(jar, dead) ==
    IF dead = {} THEN jar
    ELSE LET n == CHOOSE x \in dead : TRUE
         IN  RemoveDead(remove_cookie_by_name(jar, n), dead \ {n})

\* a mutant: the dead names are purged from the session's own store too
CombineCookiesIntoSession(js, sj, cookies) ==
    LET target == IF cookies.kind = "jar" THEN js[cookies.jar]
                  ELSE cookiejar_from_dict(cookies.items)
        merged == SetAllCookies(target, js[sj])
        dead   == IF cookies.kind = "dict" THEN DeadCookies(cookies) ELSE {}
    IN  [work |-> RemoveDead(merged, dead),
         jars |-> [js EXCEPT ![sj] = RemoveDead(@, dead)]]

\* sessions.py lines 251-268: the jar of this one request.  js are the jar
\* objects, sj the one the session holds, cookies the call's argument.  A jar
\* passed by the caller is the working jar itself and is written in place.
CombineCookies(js, sj, cookies) ==
    LET target == IF cookies.kind = "jar" THEN js[cookies.jar]
                  ELSE cookiejar_from_dict(cookies.items)
        merged == SetAllCookies(target, js[sj])
        dead   == IF cookies.kind = "dict" THEN DeadCookies(cookies) ELSE {}
    IN  [work |-> RemoveDead(merged, dead),
         jars |-> IF cookies.kind = "jar"
                  THEN [js EXCEPT ![cookies.jar] = merged]
                  ELSE js]

-----------------------------------------------------------------------------
(* Session, sessions.py lines 58-384 *)

Stages == <<"OPTIONS_MERGED", "ARGS_HOOKED", "BUILT", "PRE_REQUEST_HOOKED",
            "SENT", "POST_REQUEST_HOOKED", "RESPONSE_HOOKED">>

\* what Transport send does with a request: a response, or a failure
TransportOutcomes == {"response", "Timeout"}

Verbs == {"get", "options", "head", "post", "put", "patch", "delete"}

\* str.upper on the method names in use
Upper(m) ==
    CASE m = "get" -> "GET" [] m = "options" -> "OPTIONS" [] m = "head" -> "HEAD"
      [] m = "post" -> "POST" [] m = "put" -> "PUT" [] m = "patch" -> "PATCH"
      [] m = "delete" -> "DELETE" [] OTHER -> m

\* a header value that is a sequence, and the string it is expanded to
ListV == "<['1', '2']>"

\* utils.header_expand: a string and None stay, a sequence becomes a string
header_expand(v) == IF v = ListV THEN "1, 2" ELSE v

\* the hook points
HookNames == {"args", "pre_request", "post_request", "response"}

\* the callables registered as hooks: each leaves its name on what it is
\* given, so that the hooks applied to a value and their order can be read
HookIds == {"f", "g"}

NoHooks == [n \in {} |-> "f"]

\* hooks.dispatch_hook(key, hooks, data): the chain run for key, a callable
\* being a chain of one; no entry for key, no hook runs
HookChain(hooks, key) == IF key \in DOMAIN hooks THEN <<hooks[key]>> ELSE <<>>

\* the chains run for the hook points in names
ChainsOf(hooks, names) == [n \in names |-> HookChain(hooks, n)]

NoChains == ChainsOf(NoHooks, {})

\* the state of a call that is not being made: store is the session's store
\* and given the per-call cookies as a jar, both as the call found them;
\* config is the timeout of the configuration api.request reads, transport
\* what Transport send does if the call reaches it
NoCall ==
    [method |-> "", headers |-> NoArg, cookies |-> NoArg, allow |-> "absent",
     rr |-> TRUE, timeout |-> Nil, hooks |-> NoArg, config |-> Nil,
     transport |-> "response",
     store |-> EmptyJar, given |-> EmptyJar]

\* what a call did (stages, sends, the chains dispatched), the request it
\* built (method, headers, allow, timeout, work), the value it returned, and
\* what the headers and hooks mappings the caller passed hold after the call
NoRes ==
    [stages |-> <<>>, outcome |-> "none", sends |-> 0, method |-> "",
     headers |-> EmptyDict, allow |-> "absent", combined |-> FALSE,
     work |-> EmptyJar, timeout |-> Nil, chains |-> NoChains, value |-> <<>>,
     headersAfter |-> EmptyDict, hooksAfter |-> NoHooks]

\* models.Request.prepare: the prepared request carries the method in upper
\* case and the headers set on the request, None being no headers
prepare(method, headers, allow) ==
    [method |-> Upper(method),
     headers |-> IF headers.kind = "none" THEN EmptyDict
                 ELSE [k \in DOMAIN headers.items |-> header_expand(headers.items[k])],
     allow |-> allow]

\* Session.send, lines 365-369: a new HTTPAdapter sends the prepared request
send(prep, transport) ==
    [NoRes EXCEPT !.stages = IF transport = "response" THEN <<"BUILT", "SENT">>
                             ELSE <<"BUILT">>,
                  !.outcome = transport,
                  !.sends = 1,
                  !.method = prep.method,
                  !.headers = prep.headers,
                  !.allow = prep.allow]

\* Session.request, lines 134-169: the arguments are set on a new Request,
\* which is prepared and sent; no attribute of the session is read, and
\* timeout and return_response are not read either
request(method, headers, cookies, timeout, hooks, allow, rr, transport) ==
    [send(prepare(method, headers, allow), transport) EXCEPT
        !.headersAfter = headers.items, !.hooksAfter = hooks.items]

\* Session._send_request: what follows BUILT in the request's state machine,
\* the hooks of the request (args['hooks']) being dispatched at each point
send_request(r, hooks, transport) ==
    IF transport = "response"
    THEN [r EXCEPT !.stages = @ \o <<"PRE_REQUEST_HOOKED", "SENT",
                                     "POST_REQUEST_HOOKED", "RESPONSE_HOOKED">>,
                   !.chains = ChainsOf(hooks, HookNames),
                   !.outcome = "response", !.sends = 1]
    ELSE [r EXCEPT !.stages = @ \o <<"PRE_REQUEST_HOOKED">>,
                   !.chains = ChainsOf(hooks, {"args", "pre_request"}),
                   !.outcome = transport, !.sends = 1]

\* lines 219-224: the call's hooks (a new dict for None), to which every
\* hook of the session is added under the names the call does not set
SetDefaultHooks(hooks, sk) ==
    [n \in DOMAIN hooks.items \cup DOMAIN sk |->
        IF n \in DOMAIN hooks.items THEN hooks.items[n] ELSE sk[n]]

\* for k, v in list(headers.items()): headers[k] = header_expand(v) (lines
\* 227-229, and api.py 53-55): what the dict holds afterwards
ExpandHeaders(headers) ==
    [k \in DOMAIN headers.items |-> header_expand(headers.items[k])]

\* Session.old_request, lines 174-294.  The session is given by its jar sj
\* among the jars js, its pool manager, its headers sh, timeout st, hooks sk.
old_request(js, sj, pool, sh, st, sk, method, headers, cookies, timeout, hooks, allow, rr, transport) ==
    LET \* lines 219, 223-224: written into the dict the caller passed
        defaulted == SetDefaultHooks(hooks, sk)
        \* lines 217, 227-229: written into the dict the caller passed
        expanded == ExpandHeaders(headers)
        \* the caller's objects after these lines (None: no object)
        entered == [NoRes EXCEPT
                      !.headersAfter = expanded,
                      !.hooksAfter = IF hooks.kind = "none" THEN NoHooks ELSE defaulted]
    IN
    IF ~pool
    THEN \* line 248: self.poolmanager is read and the session has none
         [res |-> [entered EXCEPT !.outcome = "AttributeError"], jars |-> js]
    ELSE
    LET \* lines 251-268
        c == CombineCookies(js, sj, cookies)
        \* lines 270-278
        merged == MergedItems(expanded, sh)
        mhooks == MergedItems(defaulted, sk)
        \* lines 281-287
        built == [entered EXCEPT !.stages = <<"OPTIONS_MERGED", "ARGS_HOOKED", "BUILT">>,
                               !.outcome = "request",
                               !.method = Upper(method),
                               !.headers = merged,
                               !.allow = allow,
                               !.timeout = merge_kwargs(<<>>, timeout, st).ret,
                               !.chains = ChainsOf(mhooks, {"args"}),
                               !.combined = TRUE,
                               !.work = c.work]
    IN  [res |-> IF rr THEN send_request(built, mhooks, transport) ELSE built,
         jars |-> c.jars]

\* a mutant: head sets the default of get and options
VerbAllowHeadTrue(verb, allow) ==
    IF allow # "absent" THEN allow
    ELSE IF verb \in {"get", "options", "head"} THEN "True"
    ELSE "absent"

\* kwargs.setdefault('allow_redirects', ...) of get, options and head (lines
\* 303, 313, 323); the other verbs leave it to request's default
VerbAllow(verb, allow) ==
    IF allow # "absent" THEN allow
    ELSE IF verb \in {"get", "options"} THEN "True"
    ELSE IF verb = "head" THEN "False"
    ELSE "absent"

\* request's own default: allow_redirects=True (line 142)
RequestAllow(allow) == IF allow = "absent" THEN "True" ELSE allow

-----------------------------------------------------------------------------
(* The module functions, api.py lines 24-168 *)

\* Python's truth value of None and of a number
Truthy(v) == v.kind # "none" /\ ~(v.kind = "scalar" /\ v.s = "0")

\* hooks.setup_hooks: a chain for every hook point, the supplied callable
\* being a chain of one
setup_hooks(supplied) == [n \in HookNames |-> HookChain(supplied, n)]

\* hooks.dispatch_hooks(hooks, data): data folded through the chain, from
\* left to right; data is the sequence of the hooks it went through
dispatch_hooks(chain, data) == data \o chain

\* a request object: the hooks it went through and the response it holds
\* (<<>>: none).  A hook given a request returns a request whose response,
\* if it holds one, went through the hook as well.
NewRequest == [marks |-> <<>>, response |-> <<>>]

dispatch_request_hooks(chain, r) ==
    [marks |-> dispatch_hooks(chain, r.marks),
     response |-> IF r.response = <<>> THEN <<>>
                  ELSE dispatch_hooks(chain, r.response)]

\* models.Request.send on a transport that answers: the request holds the
\* response received
RawResponse == <<"raw">>

\* a mutant: a failure of the send is swallowed and the hooks that follow
\* the send are dispatched all the same
api_send_swallow(built, hk, r1, transport) ==
    LET r2 == dispatch_request_hooks(hk["post_request"],
                  [r1 EXCEPT !.response = IF transport = "response"
                                          THEN RawResponse ELSE <<>>])
    IN  [built EXCEPT
            !.stages = @ \o (IF transport = "response" THEN <<"SENT">> ELSE <<>>)
                         \o <<"POST_REQUEST_HOOKED", "RESPONSE_HOOKED">>,
            !.outcome = "response",
            !.sends = 1,
            !.chains = hk,
            !.value = dispatch_hooks(hk["response"], r2.response)]

\* a mutant: the response of the request that was sent is returned, not the
\* one of the request the post_request hooks returned
api_send_stale(built, hk, r1, transport) ==
    IF transport # "response"
    THEN [built EXCEPT !.outcome = transport, !.sends = 1, !.value = <<>>]
    ELSE [built EXCEPT
            !.stages = @ \o <<"SENT", "POST_REQUEST_HOOKED", "RESPONSE_HOOKED">>,
            !.outcome = "response",
            !.sends = 1,
            !.chains = hk,
            !.value = dispatch_hooks(hk["response"], RawResponse)]

\* api.request, lines 88-98: the request r1 that was built is sent, and the
\* post_request and response hooks are dispatched; a failure of the send is
\* raised to the caller
api_send(built, hk, r1, transport) ==
    IF transport # "response"
    THEN [built EXCEPT !.outcome = transport, !.sends = 1, !.value = <<>>]
    ELSE LET sent == [r1 EXCEPT !.response = RawResponse]
             r2 == dispatch_request_hooks(hk["post_request"], sent)
             response == dispatch_hooks(hk["response"], r2.response)
         IN  [built EXCEPT
                !.stages = @ \o <<"SENT", "POST_REQUEST_HOOKED", "RESPONSE_HOOKED">>,
                !.outcome = "response",
                !.sends = 1,
                !.chains = hk,
                !.value = response]

\* api.request, lines 24-98.  config is the timeout of get_config(config).
api_request(method, headers, timeout, config, hooks, allow, return_request, transport) ==
    LET \* line 73
        hk == setup_hooks(hooks.items)
        \* lines 76-82
        r1 == dispatch_request_hooks(hk["pre_request"], NewRequest)
        built == [NoRes EXCEPT
                    !.stages = <<"ARGS_HOOKED", "BUILT", "PRE_REQUEST_HOOKED">>,
                    !.outcome = "request",
                    !.method = Upper(method),
                    !.headers = ExpandHeaders(headers),
                    !.headersAfter = ExpandHeaders(headers),
                    !.hooksAfter = hooks.items,
                    !.allow = allow,
                    !.timeout = IF Truthy(timeout) THEN timeout ELSE config,
                    !.chains = [n \in {"args", "pre_request"} |-> hk[n]],
                    !.value = r1.marks]
    IN  \* lines 85-86
        IF return_request THEN built ELSE api_send(built, hk, r1, transport)

ApiVerbs == {"get", "head", "post", "patch", "put", "delete"}

\* if 'allow_redirects' not in kwargs: kwargs['allow_redirects'] = True, in
\* get and head (lines 108-109, 121-122)
ApiVerbAllow(verb, allow) ==
    IF allow # "absent" THEN allow
    ELSE IF verb \in {"get", "head"} THEN "True"
    ELSE "absent"

\* request's own default: allow_redirects=False (line 26)
ApiRequestAllow(allow) == IF allow = "absent" THEN "False" ELSE allow

-----------------------------------------------------------------------------
(* RequestException, exceptions.py lines 13-25 *)

\* a request or a response that is not there: None
NoObject == [kind |-> "none", status |-> 0, request |-> "none"]

\* a request object, known by its name
RequestObject(name) == [kind |-> "request", status |-> 0, request |-> name]

\* a response object: its status code and the request it answers
ResponseObject(status, req) ==
    [kind |-> "response", status |-> status, request |-> req]

\* the status codes of the responses: one that is OK and one that is an error
StatusOK == 200

StatusError == 404

\* Python's truth value of an object.  None is false and a request is true;
\* a response is true when its status is OK (models.Response.__bool__
\* returns self.ok)
ObjectTruthy(x) ==
    IF x.kind = "response" THEN x.status < 400 ELSE x.kind # "none"

\* no exception has been constructed
NoExc == [made |-> FALSE, response |-> NoObject, request |-> NoObject,
          given |-> NoObject]

\* RequestException.__init__(response=..., request=...): the attributes of the
\* exception; given records the request argument
RequestException_init(resp, req) ==
    [made |-> TRUE,
     response |-> resp,
     request |-> IF ObjectTruthy(resp) /\ ~ObjectTruthy(req)
                 THEN RequestObject(resp.request)
                 ELSE req,
     given |-> req]

-----------------------------------------------------------------------------
(* One session and its caller *)

\* the jar objects: the one made for the session, the one the caller owns,
\* the one made for a second session
JarIds == {"own", "caller", "other"}

\* the keys of the cookies the caller puts into the session's store
ManagedKeys ==
    {<<n, DefaultDomain>> : n \in CookieNames} \cup {<<NamePool[1], OtherDomain>>}

\* the headers a session is constructed with
SessionHeaderInputs == {EmptyDict, [k \in {"X-A"} |-> "1"]}

\* the headers the caller passes to request and to the verb methods
HeaderInputs ==
    {NoArg, DictArg([k \in {"X-A", "X-B"} |-> IF k = "X-A" THEN NoneV ELSE "2"])}

\* the headers the caller passes to old_request
OldHeaderInputs ==
    HeaderInputs \cup {DictArg([k \in {"X-A"} |-> "2"]), DictArg([k \in {"X-B"} |-> ListV])}

\* the name-to-value mappings the caller passes as cookies
CookieMappings == UNION {[K -> {"2", NoneV}] : K \in SUBSET CookieNames}

\* the cookies the caller passes to request and to the verb methods
CookieInputs ==
    {NoArg, JarArg("caller"), DictArg([k \in {NamePool[1]} |-> NoneV]),
     DictArg([k \in {NamePool[1]} |-> "2"])}

\* the cookies the caller passes to old_request: nothing, a mapping, its own
\* jar or the jar of the session
OldCookieInputs ==
    {NoArg, JarArg("caller"), JarArg(sJar)} \cup {DictArg(m) : m \in CookieMappings}

AllowInputs == {"absent", "True", "False"}

\* the timeout the caller passes: none, 0 or 5 seconds
TimeoutInputs == {Nil, Scalar("0"), Scalar("5")}

\* the timeout a session is constructed with, and the one of the configuration
DefaultTimeoutInputs == {Nil, Scalar("9")}

\* the hooks a session is constructed with
SessionHookInputs ==
    {NoHooks, [n \in {"args"} |-> "f"], [n \in {"args", "response"} |-> "f"]}

\* the hooks the caller passes
HookInputs ==
    {NoArg, DictArg([n \in {"args"} |-> "g"]), DictArg([n \in {"response"} |-> "g"]),
     DictArg([n \in {"pre_request", "post_request", "response"} |->
                 IF n = "response" THEN "f" ELSE "g"])}

\* the jar the caller owns
CallerJar == [k \in {<<NamePool[1], DefaultDomain>>} |-> "2"]

\* lines 119-123: the jar a session holds is the jar it is given, or a new
\* one (made) for a mapping and for None
SessionJar(cookies, made) == IF cookies.kind = "jar" THEN cookies.jar ELSE made

\* Session.__init__, lines 65-123: cookies is None, a mapping or a jar.  A
\* second session is constructed with the cookies other.
Session_init(headers, cookies, timeout, hooks, other) ==
    /\ sHeaders = headers
    /\ sTimeout = timeout
    /\ sHooks = hooks
    /\ sJar = SessionJar(cookies, "own")
    /\ tJar = SessionJar(other, "other")
    /\ jars = [j \in JarIds |->
                 IF j = "caller" THEN CallerJar
                 ELSE IF j = "other" THEN cookiejar_from_dict(other.items)
                 ELSE cookiejar_from_dict(cookies.items)]
    /\ tStore = jars[tJar]
    /\ exc = NoExc
    /\ hasPool = FALSE
    /\ managed = jars[sJar]
    /\ op = "idle"
    /\ call = NoCall
    /\ res = NoRes

MergeParked ==
    /\ fkvFresh = TRUE
    /\ mHeap = <<EmptyDict, EmptyDict>>
    /\ mLocal = Nil
    /\ mDefault = Nil
    /\ mHeapAfter = mHeap
    /\ mRet = Nil
    /\ mDone = FALSE

Init ==
    /\ MergeParked
    /\ \E h \in SessionHeaderInputs :
       \E c \in {NoArg, JarArg("caller"),
                 DictArg([k \in CookieNames |-> "1"])} :
          Session_init(h, c, Nil, NoHooks, NoArg)

\* the call and its result are recorded; the session keeps its attributes
Returned(name, c, r) ==
    /\ op = "idle"
    /\ exc = NoExc
    /\ op' = name
    /\ call' = [c EXCEPT !.store = jars[sJar],
                         !.given = IF c.cookies.kind = "jar" THEN jars[c.cookies.jar]
                                   ELSE cookiejar_from_dict(c.cookies.items)]
    /\ res' = r

\* the arguments of a call, as the caller gave them
CallOf(method, headers, cookies, allow, rr, timeout, hooks, transport) ==
    [NoCall EXCEPT !.method = method, !.headers = headers, !.cookies = cookies,
                   !.allow = allow, !.rr = rr, !.timeout = timeout,
                   !.hooks = hooks, !.transport = transport]

\* Session.request called directly, with arguments drawn from the given sets
Session_request_with(HI, CI, AI, RI, TI, KI) ==
    \E h \in HI, c \in CI, a \in AI, rr \in RI, to \in TI, k \in KI,
       t \in TransportOutcomes :
        /\ Returned("request", CallOf("get", h, c, a, rr, to, k, t),
                    request("get", h, c, to, k, RequestAllow(a), rr, t))
        /\ UNCHANGED <<sHeaders, sTimeout, sHooks, sJar, jars, hasPool, managed, otherVars, exc, mergeVars>>

\* Session.get, options, head, post, put, patch, delete (lines 296-363)
Session_verb_with(HI, CI, AI, RI, TI, KI) ==
    \E v \in Verbs, h \in HI, c \in CI, a \in AI, rr \in RI, to \in TI, k \in KI,
       t \in TransportOutcomes :
        /\ Returned(v, CallOf(v, h, c, a, rr, to, k, t),
                    request(v, h, c, to, k, RequestAllow(VerbAllow(v, a)), rr, t))
        /\ UNCHANGED <<sHeaders, sTimeout, sHooks, sJar, jars, hasPool, managed, otherVars, exc, mergeVars>>

\* Session.old_request
Session_old_request_with(HI, CI, RI, TI, KI) ==
    \E h \in HI, c \in CI, rr \in RI, to \in TI, k \in KI,
       t \in TransportOutcomes :
        LET r == old_request(jars, sJar, hasPool, sHeaders, sTimeout, sHooks,
                             "get", h, c, to, k, "True", rr, t)
        IN  /\ rr = FALSE => t = "response"
            /\ Returned("old_request", CallOf("get", h, c, "absent", rr, to, k, t),
                        r.res)
            /\ jars' = r.jars
            /\ UNCHANGED <<sHeaders, sTimeout, sHooks, sJar, hasPool, managed, otherVars, exc, mergeVars>>

\* the calls that vary the headers and the cookies
Session_request ==
    Session_request_with(HeaderInputs, CookieInputs, AllowInputs, {TRUE},
                         {Nil}, {NoArg})

Session_verb ==
    Session_verb_with(HeaderInputs, CookieInputs, AllowInputs, {TRUE},
                      {Nil}, {NoArg})

Session_old_request ==
    Session_old_request_with(OldHeaderInputs, OldCookieInputs, BOOLEAN,
                             {Nil}, {NoArg})

\* the caller is done with the result of the call
Discard ==
    /\ op # "idle" \/ exc # NoExc
    /\ op' = "idle"
    /\ call' = NoCall
    /\ res' = NoRes
    /\ exc' = NoExc
    /\ UNCHANGED <<sHeaders, sTimeout, sHooks, sJar, jars, hasPool, managed, otherVars, mergeVars>>

\* an explicit cookie-management call: session.cookies.set_cookie(...)
ManageCookie ==
    /\ op = "idle"
    /\ \E k \in ManagedKeys :
          /\ (IF k \in DOMAIN jars[sJar] THEN jars[sJar][k] # "1" ELSE TRUE)
          /\ jars' = [jars EXCEPT ![sJar] = set_cookie(@, k, "1")]
    /\ managed' = jars'[sJar]
    /\ UNCHANGED <<sHeaders, sTimeout, sHooks, sJar, hasPool, op, call, res, otherVars, exc, mergeVars>>

\* Session.init_poolmanager: the session gets the pool manager it owns
init_poolmanager == TRUE

\* Session.__setstate__ (lines 374-378) on the session's own __getstate__:
\* every attribute is set to the value it has, then init_poolmanager runs
Session_setstate ==
    /\ op = "idle"
    /\ ~hasPool
    /\ hasPool' = init_poolmanager
    /\ UNCHANGED <<sHeaders, sTimeout, sHooks, sJar, jars, managed, op, call, res, otherVars, exc, mergeVars>>

Next ==
    \/ Session_request
    \/ Session_verb
    \/ Session_old_request
    \/ Discard
    \/ ManageCookie
    \/ Session_setstate

Spec == Init /\ [][Next]_vars

-----------------------------------------------------------------------------
(* The options of a call other than headers and cookies: return_response,   *)
(* timeout, hooks and allow_redirects, through a session and through the    *)
(* module functions                                                         *)

Session_request_options ==
    Session_request_with({NoArg}, {NoArg}, AllowInputs, BOOLEAN,
                         TimeoutInputs, HookInputs)

Session_verb_options ==
    Session_verb_with({NoArg}, {NoArg}, AllowInputs, BOOLEAN,
                      TimeoutInputs, HookInputs)

\* the headers passed with these calls: none, or one whose value is a list
OptionHeaderInputs == {NoArg, DictArg([k \in {"X-B"} |-> ListV])}

Session_old_request_options ==
    Session_old_request_with(OptionHeaderInputs, {NoArg}, BOOLEAN, TimeoutInputs,
                             HookInputs)

\* api.request called directly; rr records the opposite of _return_request
Api_request ==
    \E h \in OptionHeaderInputs, a \in AllowInputs, rq \in BOOLEAN,
       to \in TimeoutInputs, cf \in DefaultTimeoutInputs, k \in HookInputs,
       t \in TransportOutcomes :
        /\ rq => t = "response"
        /\ Returned("api_request",
                    [CallOf("get", h, NoArg, a, ~rq, to, k, t) EXCEPT !.config = cf],
                    api_request("get", h, to, cf, k, ApiRequestAllow(a), rq, t))
        /\ UNCHANGED <<sHeaders, sTimeout, sHooks, sJar, jars, hasPool, managed, otherVars, exc, mergeVars>>

\* api.get, head, post, put, patch, delete (lines 101-167)
Api_verb ==
    \E v \in ApiVerbs, h \in OptionHeaderInputs, a \in AllowInputs, rq \in BOOLEAN,
       to \in TimeoutInputs, cf \in DefaultTimeoutInputs, k \in HookInputs,
       t \in TransportOutcomes :
        /\ rq => t = "response"
        /\ Returned("api_verb",
                    [CallOf(v, h, NoArg, a, ~rq, to, k, t) EXCEPT !.config = cf],
                    api_request(v, h, to, cf, k,
                                ApiRequestAllow(ApiVerbAllow(v, a)), rq, t))
        /\ UNCHANGED <<sHeaders, sTimeout, sHooks, sJar, jars, hasPool, managed, otherVars, exc, mergeVars>>

\* the responses and the requests an exception is constructed with
ResponseInputs ==
    {NoObject, ResponseObject(StatusOK, "sent"), ResponseObject(StatusError, "sent")}

RequestInputs == {NoObject, RequestObject("given")}

\* the caller constructs a RequestException
NewRequestException ==
    /\ op = "idle"
    /\ exc = NoExc
    /\ \E resp \in ResponseInputs, req \in RequestInputs :
          exc' = RequestException_init(resp, req)
    /\ UNCHANGED <<sHeaders, sTimeout, sHooks, sJar, jars, hasPool, managed,
                   otherVars, op, call, res, mergeVars>>

InitPipeline ==
    /\ MergeParked
    /\ \E st \in DefaultTimeoutInputs, sk \in SessionHookInputs :
          Session_init(EmptyDict, NoArg, st, sk, NoArg)

NextPipeline ==
    \/ Session_request_options
    \/ Session_verb_options
    \/ Session_old_request_options
    \/ Api_request
    \/ Api_verb
    \/ NewRequestException
    \/ Discard
    \/ Session_setstate

SpecPipeline == InitPipeline /\ [][NextPipeline]_vars

-----------------------------------------------------------------------------
(* Two sessions: the first makes requests and has its cookies managed, the  *)
(* second is constructed and then left alone                                *)

\* the cookies the two sessions are constructed with
SessionCookieInputs == {NoArg, JarArg("caller"), DictArg([k \in CookieNames |-> "1"])}

\* the cookies passed to a request: nothing, a mapping, the caller's jar, the
\* jar of the second session
TwoCookieInputs ==
    {NoArg, JarArg("caller"), JarArg(tJar), DictArg([k \in {NamePool[1]} |-> "2"])}

Session_request_two ==
    Session_request_with({NoArg}, TwoCookieInputs, {"absent"}, {TRUE}, {Nil}, {NoArg})

Session_old_request_two ==
    Session_old_request_with({NoArg}, TwoCookieInputs, BOOLEAN, {Nil}, {NoArg})

InitTwo ==
    /\ MergeParked
    /\ \E c \in SessionCookieInputs, o \in SessionCookieInputs :
          Session_init(EmptyDict, c, Nil, NoHooks, o)

NextTwo ==
    \/ Session_request_two
    \/ Session_old_request_two
    \/ Discard
    \/ ManageCookie
    \/ Session_setstate

SpecTwo == InitTwo /\ [][NextTwo]_vars

\* the session part of the state while merge_kwargs is studied on its own
SessionParked == Session_init(EmptyDict, NoArg, Nil, NoHooks, NoArg)

-----------------------------------------------------------------------------
(* merge_kwargs on its own: the inputs are drawn from the bounded domains *)

\* the arguments over a heap of n dicts
ArgVals(n) == {Nil, Str("s"), Scalar("5")} \cup {Ref(i) : i \in 1..n}

\* merge_kwargs hands a local value that is neither None nor a string to
\* from_key_val_list once the default is a mapping: a number there is a type
\* error of the caller, and no setting of Session is called that way.
WellTyped(local, default) == ~(local.kind = "scalar" /\ default.kind = "dict")

MergeInputs ==
    /\ mHeap \in [1..2 -> Dicts]
    /\ mLocal \in ArgVals(2)
    /\ mDefault \in ArgVals(2)
    \* one canonical heap for the inputs that name fewer than two dicts
    /\ (mLocal.kind # "dict" /\ mDefault.kind # "dict") => mHeap = [i \in 1..2 |-> EmptyDict]
    /\ (mLocal.kind = "dict" /\ mDefault.kind # "dict") => (mLocal.ref = 1 /\ mHeap[2] = EmptyDict)
    /\ (mLocal.kind # "dict" /\ mDefault.kind = "dict") => (mDefault.ref = 1 /\ mHeap[2] = EmptyDict)
    /\ (mLocal.kind = "dict" /\ mDefault.kind = "dict") =>
          \/ mLocal.ref = 1 /\ mDefault.ref = 2
          \/ mLocal.ref = 1 /\ mDefault.ref = 1 /\ mHeap[2] = EmptyDict
    /\ WellTyped(mLocal, mDefault)

InitMerge ==
    /\ fkvFresh \in BOOLEAN
    /\ MergeInputs
    /\ mHeapAfter = mHeap
    /\ mRet = Nil
    /\ mDone = FALSE
    /\ SessionParked

\* the call merge_kwargs(mLocal, mDefault)
CallMerge ==
    /\ ~mDone
    /\ LET r == merge_kwargs(mHeap, mLocal, mDefault)
       IN  /\ mHeapAfter' = r.heap
           /\ mRet' = r.ret
    /\ mDone' = TRUE
    /\ UNCHANGED <<fkvFresh, mHeap, mLocal, mDefault, sessionVars>>

NextMerge == CallMerge

SpecMerge == InitMerge /\ [][NextMerge]_vars

-----------------------------------------------------------------------------
(* Properties of merge_kwargs, checked under SpecMerge *)

\* the contents of the arguments before the call and of the result after it
LocalItems == mHeap[mLocal.ref]

DefaultItems == mHeap[mDefault.ref]

RetItems == mHeapAfter[mRet.ref]

BothMappings == mDone /\ mLocal.kind = "dict" /\ mDefault.kind = "dict"

\* x with the keys that hold None removed
WithoutNone(d) == [k \in {j \in DOMAIN d : d[j] # NoneV} |-> d[k]]

\* C3 (unset-wins): when default is a mapping that contains k and local is a
\* mapping in which k is None, the result of merge_kwargs(local, default) is a
\* mapping that does not contain k.
C3_UnsetWins ==
    BothMappings =>
        \A k \in DOMAIN LocalItems \cap DOMAIN DefaultItems :
            LocalItems[k] = NoneV => (mRet.kind = "dict" /\ k \notin DOMAIN RetItems)

\* C3 witness: a merge was made with a key the default sets to a string and
\* the local mapping sets to None, next to a key that survives the merge.
C3_Witness ==
    /\ BothMappings
    /\ \E k \in DOMAIN LocalItems \cap DOMAIN DefaultItems :
          LocalItems[k] = NoneV /\ DefaultItems[k] \in Vals
    /\ mRet.kind = "dict" /\ RetItems # EmptyDict

\* C4 as stated (local precedence): for every key k present in both bags with
\* different values, the merged bag holds local's value under k.
C4_LocalPrecedence_Original ==
    BothMappings =>
        \A k \in DOMAIN LocalItems \cap DOMAIN DefaultItems :
            LocalItems[k] # DefaultItems[k] =>
                (mRet.kind = "dict" /\ k \in DOMAIN RetItems /\ RetItems[k] = LocalItems[k])

\* C4 amended: for every key k present in both bags with different values,
\* the merged bag holds local's value under k when that value is not None,
\* and does not hold k when it is None.
C4_LocalPrecedence ==
    BothMappings =>
        \A k \in DOMAIN LocalItems \cap DOMAIN DefaultItems :
            LocalItems[k] # DefaultItems[k] =>
                /\ mRet.kind = "dict"
                /\ IF LocalItems[k] # NoneV
                   THEN k \in DOMAIN RetItems /\ RetItems[k] = LocalItems[k]
                   ELSE k \notin DOMAIN RetItems

\* C4 witness: a merge in which a key holds one string in local and another
\* string in default.
C4_Witness ==
    /\ BothMappings
    /\ \E k \in DOMAIN LocalItems \cap DOMAIN DefaultItems :
          LocalItems[k] \in Vals /\ DefaultItems[k] \in Vals /\ LocalItems[k] # DefaultItems[k]

\* the two arguments denote the same bag x (the same object, or equal ones)
SameArguments == mDone /\ ValOf(mHeap, mLocal) = ValOf(mHeap, mDefault)

\* C5 as stated (merge idempotence): merge_kwargs(x, x) equals x for every
\* bag x, also when some key of x holds None.
C5_Idempotence_Original ==
    SameArguments => ValOf(mHeapAfter, mRet) = ValOf(mHeap, mLocal)

\* C5 amended: merge_kwargs(x, x) equals x with the keys that hold None
\* removed; it equals x for every x none of whose keys holds None.
C5_Idempotence ==
    SameArguments =>
        /\ mRet.kind = mLocal.kind /\ mRet.s = mLocal.s
        /\ mLocal.kind = "dict" => RetItems = WithoutNone(LocalItems)

\* C5 witness: merge_kwargs(x, x) was called on a bag x in which one key
\* holds a string and another one None, and returned a mapping.
C5_Witness ==
    /\ SameArguments
    /\ mLocal.kind = "dict"
    /\ \E k, j \in DOMAIN LocalItems : LocalItems[k] \in Vals /\ LocalItems[j] = NoneV
    /\ mRet.kind = "dict"

\* C6 (purity): after merge_kwargs(local, default) every object that existed
\* before the call, local and default among them, holds the keys and values
\* it held before.
C6_Pure ==
    mDone =>
        /\ Len(mHeapAfter) >= Len(mHeap)
        /\ \A i \in 1..Len(mHeap) : mHeapAfter[i] = mHeap[i]

\* C6 witness: the key-by-key merge ran and its result differs from both
\* arguments, which are two distinct objects.
C6_Witness ==
    /\ BothMappings
    /\ mLocal.ref # mDefault.ref
    /\ mRet.kind = "dict"
    /\ RetItems # LocalItems
    /\ RetItems # DefaultItems

\* default is absent, or an empty bag
DefaultAbsentOrEmpty ==
    \/ mDefault.kind = "none"
    \/ mDefault.kind = "dict" /\ DefaultItems = EmptyDict

\* C7 as stated: when default is absent or an empty bag, merge_kwargs returns
\* local unchanged, for every local: an absent local, and a local with keys
\* set to None (which stay in the result).
C7_DefaultAbsentOrEmpty_Original ==
    (mDone /\ DefaultAbsentOrEmpty) => ValOf(mHeapAfter, mRet) = ValOf(mHeap, mLocal)

\* C7 amended: when default is absent (None), merge_kwargs returns local
\* itself, unchanged, for every local: an absent local, and a local with keys
\* set to None (which stay in the result).  When default is an empty bag it
\* returns the empty default for an absent local, and for a local mapping a
\* mapping that holds local's entries without the keys set to None.
C7_DefaultAbsent ==
    /\ (mDone /\ mDefault.kind = "none") =>
          /\ mRet = mLocal
          /\ ValOf(mHeapAfter, mRet) = ValOf(mHeap, mLocal)
    /\ (mDone /\ mDefault.kind = "dict" /\ DefaultItems = EmptyDict) =>
          /\ mLocal.kind = "none" => mRet = mDefault
          /\ mLocal.kind = "dict" =>
                (mRet.kind = "dict" /\ RetItems = WithoutNone(LocalItems))

\* C7 witness: merge_kwargs was called with an absent default and a local
\* mapping that sets a key to None.
C7_Witness ==
    /\ mDone
    /\ mDefault.kind = "none"
    /\ mLocal.kind = "dict"
    /\ \E k \in DOMAIN LocalItems : LocalItems[k] = NoneV

-----------------------------------------------------------------------------
(* Properties of Session, checked under Spec *)

RequestOps == Verbs \cup {"request"}

\* C1 as stated: a call of Session.request or of a verb method that returns
\* a Response has passed, in order and once each, through the merge of the
\* options, the args hook, the build, the pre_request hook, the send, the
\* post_request hook and the response hook.
C1_FullPipeline ==
    (op \in RequestOps /\ res.outcome = "response") => res.stages = Stages

\* the call of the scenario: get(url, headers={"X-A": None, "X-B": "2"}) on a
\* session whose default headers are {"X-A": "1"}
ScenarioGet ==
    /\ op = "get"
    /\ sHeaders = [k \in {"X-A"} |-> "1"]
    /\ call.headers = DictArg([k \in {"X-A", "X-B"} |-> IF k = "X-A" THEN NoneV ELSE "2"])

\* C2 as stated: in that scenario the prepared request's headers are exactly
\* {"X-B": "2"}, and no key that carries None reaches the prepared request.
C2_GetSessionDefaults ==
    ScenarioGet => res.headers = [k \in {"X-B"} |-> "2"]

\* C8: whatever requests are made through the session (request, old_request,
\* a verb method) and whatever cookies they pass, the session's store holds
\* the cookies the last explicit cookie-management call left in it, and a
\* call that has just returned left the store as it found it.
C8_StoreUnchanged ==
    /\ jars[sJar] = managed
    /\ op # "idle" => jars[sJar] = call.store

\* C8 witness: old_request ran its cookie step with a per-call mapping that
\* unsets a cookie the session holds.
C8_Witness ==
    /\ op = "old_request"
    /\ res.combined
    /\ call.cookies.kind = "dict"
    /\ \E n \in DOMAIN call.cookies.items :
          call.cookies.items[n] = NoneV /\ n \in NamesOf(jars[sJar])
    /\ res.work # jars[sJar]

\* C9: when old_request combines a per-call mapping C with the session's
\* cookies S, the names in the working jar are the names of C and of S
\* without the dead names, the keys of C whose value is None.
C9_WorkingJarNames ==
    (res.combined /\ call.cookies.kind = "dict") =>
        NamesOf(res.work) =
            (DOMAIN call.cookies.items \cup NamesOf(call.store))
                \ {n \in DOMAIN call.cookies.items : call.cookies.items[n] = NoneV}

\* C9 witness: the step ran with a mapping that sets one cookie and unsets
\* another one, which the session holds.
C9_Witness ==
    /\ res.combined
    /\ call.cookies.kind = "dict"
    /\ \E n, m \in DOMAIN call.cookies.items :
          /\ call.cookies.items[n] = NoneV
          /\ n \in NamesOf(call.store)
          /\ call.cookies.items[m] # NoneV
    /\ res.work # EmptyJar

\* C10 as stated: when the per-call cookies and the session's store hold a
\* cookie of the same name and domain with different values, neither None,
\* the working jar holds the per-call value.
C10_CallCookieKept ==
    res.combined =>
        \A k \in DOMAIN call.given \cap DOMAIN call.store :
            (call.given[k] # NoneV /\ call.store[k] # NoneV
                /\ call.given[k] # call.store[k]) =>
                    (k \in DOMAIN res.work /\ res.work[k] = call.given[k])

\* C18 as stated: whatever the first session does (requests, cookies set in
\* its store), the cookies of the second session are those it was
\* constructed with.
C18_SessionsIndependent == jars[tJar] = tStore

-----------------------------------------------------------------------------
(* Properties of the options of a call, checked under SpecPipeline *)

\* C11 as stated (prepare-without-send): a call of Session.request or of a
\* verb method of Session with return_response=False never invokes Transport
\* send and returns the unsent request to the caller.
C11_PrepareWithoutSend ==
    (op \in RequestOps /\ ~call.rr) => (res.sends = 0 /\ res.outcome = "request")

\* the stages a call went through
StagesOf(r) == {r.stages[i] : i \in 1..Len(r.stages)}

ApiOps == {"api_request", "api_verb"}

\* C12 as stated: a call of api.request with _return_request=True, or of
\* Session.old_request with return_response=False, that returns the request
\* has built it and has neither sent it nor dispatched the pre_request, the
\* post_request or the response hooks.
C12_ShortCircuitAtBuilt ==
    (op \in ApiOps \cup {"old_request"} /\ ~call.rr /\ res.outcome = "request") =>
        /\ "BUILT" \in StagesOf(res)
        /\ res.sends = 0
        /\ StagesOf(res) \cap {"PRE_REQUEST_HOOKED", "SENT", "POST_REQUEST_HOOKED",
                               "RESPONSE_HOOKED"} = {}
        /\ DOMAIN res.chains \cap {"pre_request", "post_request", "response"} = {}

\* a call of Session.get or of api.get that reaches the send
GetSent == (op = "get") \/ (op = "api_verb" /\ call.method = "get" /\ call.rr)

\* C13: when Transport send fails with a timeout during Session.get or
\* api.get, the call fails with Timeout, the send was tried once, and no
\* post_request or response hook was dispatched for the request.
C13_TimeoutPropagates ==
    (GetSent /\ call.transport = "Timeout") =>
        /\ res.outcome = "Timeout"
        /\ res.sends = 1
        /\ StagesOf(res) \cap {"SENT", "POST_REQUEST_HOOKED", "RESPONSE_HOOKED"} = {}
        /\ DOMAIN res.chains \cap {"post_request", "response"} = {}

\* C13 witness: api.get was called with post_request and response hooks and
\* the send timed out.
C13_Witness ==
    /\ op = "api_verb" /\ call.method = "get" /\ call.rr
    /\ call.transport = "Timeout"
    /\ {"post_request", "response"} \subseteq DOMAIN call.hooks.items
    /\ res.sends = 1

\* C14: Session.head passes allow_redirects=False to request when the
\* caller gives none, Session.get passes True, and both pass on the value the
\* caller gives.
C14_RedirectDefaults ==
    op \in {"get", "head"} =>
        res.allow = IF call.allow # "absent" THEN call.allow
                    ELSE IF op = "head" THEN "False" ELSE "True"

\* C14 witness: Session.head was called without allow_redirects and the
\* request was made with allow_redirects=False.
C14_Witness ==
    op = "head" /\ call.allow = "absent" /\ res.allow = "False" /\ res.sends = 1

\* the verbs that C15 gives a default to
DefaultTrueVerbs == {"get", "head", "options"}

\* C15 as stated: a call of get, head or options, of Session or of the api
\* module, that gives no allow_redirects issues its request with
\* allow_redirects=True.
C15_VerbDefaultTrue ==
    ((op \in DefaultTrueVerbs \/ (op = "api_verb" /\ call.method \in DefaultTrueVerbs))
        /\ call.allow = "absent") => res.allow = "True"

\* C16 as stated: when the session and a call of old_request both supply a
\* hook for a name, the chain dispatched for that name is the session's hook
\* followed by the call's hook.
C16_SessionHooksFirst ==
    (op = "old_request" /\ res.combined) =>
        \A n \in DOMAIN res.chains \cap DOMAIN sHooks \cap DOMAIN call.hooks.items :
            res.chains[n] = <<sHooks[n], call.hooks.items[n]>>

\* the timeout the claim resolves: the caller's when one is passed, whatever
\* its value, otherwise the default, otherwise none
ResolvedTimeout(timeout, default) == IF timeout.kind # "none" THEN timeout ELSE default

\* C17 as stated: the request built by Session.request carries the per-call
\* timeout when the caller passes one (0 included), otherwise the session's
\* timeout, otherwise none; the one built by api.request carries the
\* per-call timeout when the caller passes one (0 included), otherwise the
\* configuration's timeout, otherwise none.
C17_TimeoutResolution ==
    /\ op \in RequestOps => res.timeout = ResolvedTimeout(call.timeout, sTimeout)
    /\ op \in ApiOps => res.timeout = ResolvedTimeout(call.timeout, call.config)

\* C19 as stated: an exception constructed with a response and no request
\* has the request of that response as its request, whatever the status of
\* the response; a request that is passed is kept; with neither, both
\* attributes are None.
C19_ExceptionContext ==
    exc.made =>
        /\ exc.response.kind = "response" /\ exc.given.kind = "none" =>
              exc.request = RequestObject(exc.response.request)
        /\ exc.given.kind # "none" => exc.request = exc.given
        /\ exc.response.kind = "none" /\ exc.given.kind = "none" =>
              exc.request = NoObject

\* the hook the caller registered under a name, as a chain
CallChain(name) == HookChain(call.hooks.items, name)

\* C20: a call of api.request (or of a verb function) without _return_request
\* on a transport that answers dispatches args, pre_request, the send,
\* post_request and response in that order, once each, and returns the
\* response of the request that the post_request dispatch returned, after
\* the response dispatch: the raw response, then the post_request hooks, then
\* the response hooks.
C20_ApiPipeline ==
    (op \in ApiOps /\ call.rr /\ call.transport = "response") =>
        /\ res.outcome = "response"
        /\ res.stages = <<"ARGS_HOOKED", "BUILT", "PRE_REQUEST_HOOKED", "SENT",
                          "POST_REQUEST_HOOKED", "RESPONSE_HOOKED">>
        /\ res.sends = 1
        /\ res.chains = [n \in HookNames |-> CallChain(n)]
        /\ res.value = RawResponse \o CallChain("post_request") \o CallChain("response")

\* C20 witness: api.request returned a response that went through a
\* post_request hook and then through a response hook.
C20_Witness ==
    /\ op \in ApiOps /\ call.rr /\ call.transport = "response"
    /\ {"post_request", "response"} \subseteq DOMAIN call.hooks.items
    /\ res.value = <<"raw", "g", "f">>

\* the caller's headers mapping holds after the call what it held before
HeadersKept == call.headers.kind = "dict" => res.headersAfter = call.headers.items

\* the caller's hooks mapping holds after the call what it held before
HooksKept == call.hooks.kind = "dict" => res.hooksAfter = call.hooks.items

\* the jar the caller passed as cookies holds after the call what it held
\* before
JarKept == call.cookies.kind = "jar" => jars[call.cookies.jar] = call.given

\* C21 as stated: after Session.old_request or api.request (or a verb
\* function) returns, the hooks mapping, the headers mapping and the cookie
\* jar the caller passed hold exactly the entries they held before the call.
C21_ArgumentsKept ==
    (op \in ApiOps \cup {"old_request"} /\ res.outcome \in {"request", "response"}) =>
        (HeadersKept /\ HooksKept /\ JarKept)

=============================================================================
